---- MODULE Spec2Model ----
(***************************************************************************)
(* A model of the Eureka client of src/src/EurekaClient.js: registration,  *)
(* heartbeats, registry fetches with the local registry cache, and the     *)
(* start()/stop() orchestration.                                           *)
(*                                                                         *)
(* JavaScript runs each callback to completion, so every action below is   *)
(* one callback (or one public call) of the client, from its first line to *)
(* the point where it returns to the event loop.  Network calls that are   *)
(* still waiting for their response are the elements of the bag inflight.  *)
(*                                                                         *)
(* Under Spec the registry host is the configured one, so buildEurekaUrl   *)
(* calls back in the turn that calls it and every operation sends its      *)
(* request in the turn that starts it.  SpecDns adds the resolution of the *)
(* host by two TXT queries, SpecLookup the lookups of the application, and *)
(* SpecIndex runs the indexing of one registry payload per behaviour.      *)
(***************************************************************************)
EXTENDS Integers, Sequences, FiniteSets, Bags, TLC

VARIABLES
  config,         \* this.config: the flags the orchestration reads
  instance,       \* this.config.instance: status and hostName
  cache,          \* this.cache: [app |-> ..., vip |-> ...]
  heartbeat,      \* this.heartbeat: handle of the last heartbeat interval (0: undefined)
  registryFetch,  \* this.registryFetch: handle of the last fetch interval (0: undefined)
  hbTimers,       \* heartbeat intervals the runtime still fires
  rfTimers,       \* registry-fetch intervals the runtime still fires
  inflight,       \* bag of network calls whose callback has not run yet
  history,        \* start() calls, start() completions and stop() calls, in order
  last,           \* the response handled by the last step, and what it was answered with
  resolving,      \* bag of TXT queries whose callback has not run yet
  lookup,         \* the lookup the application made in the last step, and its result
  payload         \* the payload the registry holds, where one payload is followed

vars == <<config, instance, cache, heartbeat, registryFetch, hbTimers, rfTimers,
          inflight, history, last, resolving, lookup, payload>>

----------------------------------------------------------------------------
(* Bounds of the model. *)

MaxStarts == 1

MaxStops == 1

MaxInFlight == 2

MaxApps == 1

MaxInst == 1

MaxList == 2

----------------------------------------------------------------------------
(* Strings.  Application names are sequences of characters so that         *)
(* toUpperCase is computed character by character.                         *)

ToUpperChar(c) ==
  CASE c = "a" -> "A"
    [] c = "b" -> "B"
    [] OTHER -> c

RECURSIVE toUpperCase(_)
toUpperCase(s) ==
  IF s = <<>> THEN <<>>
  ELSE <<ToUpperChar(Head(s))>> \o toUpperCase(Tail(s))

AppNames == {<<"a">>, <<"A">>, <<"b">>}

VipAddresses == {"v1", "v2"}

InstanceIds == {"i1"}

----------------------------------------------------------------------------
(* Registry payloads: the body of a 200 response to the registry read.     *)

Instances == [vipAddress : VipAddresses, instanceId : InstanceIds]

\* The JavaScript value [] where an instance record is expected: its
\* vipAddress property reads as undefined.
EmptyArray == [vipAddress |-> "undefined", instanceId |-> "[]"]

SeqsUpTo(S, n) == UNION {[1..k -> S] : k \in 0..n}

\* An application entry.  kind tells the shape of its instance field:
\*   "missing"  no instance field (app.instance is undefined)
\*   "object"   a single instance record, held as instance[1]
\*   "array"    a list of instance records, of any length from 0
Applications ==
  {[name |-> n, kind |-> "missing", instance |-> <<>>] : n \in AppNames}
  \cup {[name |-> n, kind |-> "object", instance |-> <<r>>] :
          n \in AppNames, r \in Instances}
  \cup {[name |-> n, kind |-> "array", instance |-> s] :
          n \in AppNames, s \in SeqsUpTo(Instances, MaxInst)}

\* A response body.  kind tells what JSON.parse(body) yields:
\*   "malformed"       JSON.parse throws
\*   "null"            null
\*   "noApplications"  an object without an applications field
\*   "noApplication"   { applications: {} }
\*   "object"          { applications: { application: application[1] } }
\*   "array"           { applications: { application: application } }
Bodies ==
  {[kind |-> k, application |-> <<>>] :
      k \in {"malformed", "null", "noApplications", "noApplication"}}
  \cup {[kind |-> "object", application |-> <<a>>] : a \in Applications}
  \cup {[kind |-> "array", application |-> s] : s \in SeqsUpTo(Applications, MaxApps)}

NoBody == [kind |-> "none", application |-> <<>>]

\* The payloads whose indexing is followed one by one: one application, or
\* a list of one or of two, each with a single instance record or a list of
\* up to MaxList records.  Two records share a vip address, two names are
\* equal after upper-casing.
RecordIds == {"i1", "i2"}

Records ==
  {r \in [vipAddress : VipAddresses, instanceId : RecordIds] :
     r.vipAddress = "v1" \/ r.instanceId = "i1"}

PayloadApplications ==
  {[name |-> n, kind |-> "object", instance |-> <<r>>] :
     n \in AppNames, r \in Records}
  \cup {[name |-> n, kind |-> "array", instance |-> s] :
          n \in AppNames, s \in SeqsUpTo(Records, MaxList)}

Payloads ==
  {[kind |-> "object", application |-> <<a>>] : a \in PayloadApplications}
  \cup {[kind |-> "array", application |-> <<a>>] : a \in PayloadApplications}
  \cup {[kind |-> "array", application |-> <<a, b>>] :
          a \in PayloadApplications, b \in PayloadApplications}

\* The bodies the registry serves while the whole client runs: one of each
\* way a body fails to be indexed, and two registries of one application.
ServedApplications ==
  {[name |-> <<"a">>, kind |-> "object",
    instance |-> <<[vipAddress |-> "v1", instanceId |-> "i1"]>>],
   [name |-> <<"b">>, kind |-> "array",
    instance |-> <<[vipAddress |-> "v2", instanceId |-> "i1"]>>]}

ServedBodies ==
  {b \in Bodies :
     \/ b.kind \in {"malformed", "null", "noApplication"}
     \/ b.kind = "object" /\ b.application[1] \in ServedApplications}

----------------------------------------------------------------------------
(* The registry cache. *)

EmptyCache == [app |-> <<>>, vip |-> <<>>]

\* obj[key] = value on a JavaScript object used as a map
Put(obj, key, value) ==
  [k \in (DOMAIN obj) \cup {key} |-> IF k = key THEN value ELSE obj[k]]

\* app.instance.length
InstanceLength(app) == IF app.kind = "array" THEN Len(app.instance) ELSE 0

\* A plausible slip: the vip key is taken from the last instance of a list.
transformAppLastVip(app, c) ==
  IF app.kind = "missing" THEN [threw |-> TRUE, cache |-> c]
  ELSE IF InstanceLength(app) # 0
  THEN [threw |-> FALSE,
        cache |-> [app |-> Put(c.app, toUpperCase(app.name), app.instance),
                   vip |-> Put(c.vip, app.instance[Len(app.instance)].vipAddress,
                               app.instance)]]
  ELSE LET elem == IF app.kind = "object" THEN app.instance[1] ELSE EmptyArray
           instances == <<elem>>
       IN [threw |-> FALSE,
           cache |-> [vip |-> Put(c.vip, elem.vipAddress, instances),
                      app |-> Put(c.app, toUpperCase(app.name), instances)]]

\* transformApp(app, cache): the cache it leaves, and whether it threw
\* (reading .length of an undefined instance field is a TypeError).
transformApp(app, c) ==
  IF app.kind = "missing" THEN [threw |-> TRUE, cache |-> c]
  ELSE IF InstanceLength(app) # 0
  THEN [threw |-> FALSE,
        cache |-> [app |-> Put(c.app, toUpperCase(app.name), app.instance),
                   vip |-> Put(c.vip, app.instance[1].vipAddress, app.instance)]]
  ELSE LET elem == IF app.kind = "object" THEN app.instance[1] ELSE EmptyArray
           instances == <<elem>>
       IN [threw |-> FALSE,
           cache |-> [vip |-> Put(c.vip, elem.vipAddress, instances),
                      app |-> Put(c.app, toUpperCase(app.name), instances)]]

\* registry.applications.application.forEach(app => transformApp(app, c)):
\* an exception ends the loop.
RECURSIVE transformApps(_, _)
transformApps(apps, c) ==
  IF apps = <<>> THEN [threw |-> FALSE, cache |-> c]
  ELSE LET r == transformApp(Head(apps), c)
       IN IF r.threw THEN r ELSE transformApps(Tail(apps), r.cache)

\* A plausible slip: the applications are written into the live cache
\* instead of a fresh one.
transformRegistryInPlace(thisCache, registry) ==
  IF registry.kind = "null" THEN [threw |-> FALSE, cache |-> thisCache]
  ELSE IF registry.kind = "noApplications" THEN [threw |-> TRUE, cache |-> thisCache]
  ELSE IF registry.kind = "noApplication" THEN [threw |-> FALSE, cache |-> thisCache]
  ELSE transformApps(registry.application, thisCache)

\* A plausible slip: a registry without application entry is taken for an
\* empty registry and empties the cache.
transformRegistryEmptying(thisCache, registry) ==
  IF registry.kind = "null" THEN [threw |-> FALSE, cache |-> thisCache]
  ELSE IF registry.kind = "noApplications" THEN [threw |-> TRUE, cache |-> thisCache]
  ELSE IF registry.kind = "noApplication" THEN [threw |-> FALSE, cache |-> EmptyCache]
  ELSE LET r == transformApps(registry.application, EmptyCache)
       IN IF r.threw THEN [threw |-> TRUE, cache |-> thisCache]
          ELSE [threw |-> FALSE, cache |-> r.cache]

\* transformRegistry(registry): this.cache afterwards, and whether it threw.
\* newCache is local, so an exception leaves this.cache as it was.
transformRegistry(thisCache, registry) ==
  IF registry.kind = "null" THEN [threw |-> FALSE, cache |-> thisCache]
  ELSE IF registry.kind = "noApplications" THEN [threw |-> TRUE, cache |-> thisCache]
  ELSE IF registry.kind = "noApplication" THEN [threw |-> FALSE, cache |-> thisCache]
  ELSE LET r == transformApps(registry.application, EmptyCache)
       IN IF r.threw THEN [threw |-> TRUE, cache |-> thisCache]
          ELSE [threw |-> FALSE, cache |-> r.cache]

\* The lookups.  A result is [threw, found, instances]: threw for the
\* RangeError, found = FALSE for the undefined result.
Lookup(map, key) ==
  IF key \in DOMAIN map
  THEN [threw |-> FALSE, found |-> TRUE, instances |-> map[key]]
  ELSE [threw |-> FALSE, found |-> FALSE, instances |-> <<>>]

RangeError == [threw |-> TRUE, found |-> FALSE, instances |-> <<>>]

\* A plausible slip: the identifier is looked up as it is written.
getInstancesByAppIdExact(c, appId) ==
  IF appId = <<>> THEN RangeError ELSE Lookup(c.app, appId)

\* The empty identifier stands for every argument !appId holds of.
getInstancesByAppId(c, appId) ==
  IF appId = <<>> THEN RangeError ELSE Lookup(c.app, toUpperCase(appId))

\* A plausible slip: the identifier is not validated.
getInstancesByVipAddressUnchecked(c, vipAddress) == Lookup(c.vip, vipAddress)

getInstancesByVipAddress(c, vipAddress) ==
  IF vipAddress = "" THEN RangeError ELSE Lookup(c.vip, vipAddress)

----------------------------------------------------------------------------
(* Network calls and their responses. *)

StatusCodes == {200, 204, 404, 500}

\* What the request library hands to the callback: a transport error, or a
\* response with a status code.
Outcomes ==
  {[error |-> TRUE, statusCode |-> 0]}
  \cup {[error |-> FALSE, statusCode |-> s] : s \in StatusCodes}

\* A call in flight: the operation, the callback it was given ("start": the
\* done of start()'s series; "stop" and "user": the caller's; "noop"), and
\* for a registration the instance status its body carries.  host is the
\* host of the URL it is sent to: "static" for config.eureka.host,
\* "resolved" for the host the TXT queries gave.
Request(op, cb, status) ==
  [op |-> op, cb |-> cb, status |-> status, host |-> "static"]

InFlight(op) == {r \in BagToSet(inflight) : r.op = op}

Count(bag, op, cb) ==
  LET rs == {r \in BagToSet(bag) : r.op = op /\ r.cb = cb}
      RECURSIVE Sum(_)
      Sum(S) == IF S = {} THEN 0
                ELSE LET x == CHOOSE y \in S : TRUE
                     IN CopiesIn(x, bag) + Sum(S \ {x})
  IN Sum(rs)

Add(bag, r) == bag (+) SetToBag({r})

Remove(bag, r) == bag (-) SetToBag({r})

CanIssue == BagCardinality(inflight) + BagCardinality(resolving) < MaxInFlight

NoResponse ==
  [op |-> "none", cb |-> "none", error |-> FALSE, statusCode |-> 0,
   body |-> NoBody, result |-> "none", startResult |-> "none", threw |-> FALSE]

\* result: what the call's callback was invoked with ("null", "error", or
\* "none" when it was not invoked); startResult: the same for start()'s.
Response(r, o, body, result, startResult, threw) ==
  [op |-> r.op, cb |-> r.cb, error |-> o.error, statusCode |-> o.statusCode,
   body |-> body, result |-> result, startResult |-> startResult, threw |-> threw]

Calls(what) == Len(SelectSeq(history, LAMBDA e : e = what))

\* A TXT query in flight: which of the two it is ("region": the record of
\* the region, "host": the record of the entry chosen from it), and the
\* request that waits for the host.
Query(stage, req) == [query |-> stage, request |-> req]

NoLookup == [fn |-> "none"]

\* buildEurekaUrl(callback) as the operations use it: lookupCurrentEurekaHost
\* hands over the configured host at once, and callback sends req in the
\* same turn; with DNS it starts the first TXT query and req waits.
buildEurekaUrl(bag, req) ==
  IF config.useDns
  THEN /\ inflight' = bag
       /\ resolving' = Add(resolving, Query("region", req))
  ELSE /\ inflight' = Add(bag, req)
       /\ resolving' = resolving

----------------------------------------------------------------------------
(* Construction. *)

\* fetchMetadata stands for this.metadataClient && this.config.eureka.fetchMetadata,
\* useDns for this.amazonDataCenter && this.config.eureka.useDns
Configs == [fetchMetadata : BOOLEAN, fetchRegistry : BOOLEAN, useDns : BOOLEAN]

InitialStatuses == {"UNSET", "STARTING"}

\* The state the constructor leaves, for a configuration of configs.
Constructor(configs) ==
  /\ config \in configs
  /\ instance \in [status : InitialStatuses, hostName : {"configured"}]
  /\ cache = EmptyCache
  /\ heartbeat = 0
  /\ registryFetch = 0
  /\ hbTimers = {}
  /\ rfTimers = {}
  /\ inflight = EmptyBag
  /\ history = <<>>
  /\ last = NoResponse
  /\ resolving = EmptyBag
  /\ lookup = NoLookup

\* A client of the configured host.
Init ==
  /\ Constructor({c \in Configs : ~c.useDns})
  /\ payload = NoBody

----------------------------------------------------------------------------
(* register(callback), up to the point where the request is sent.          *)

register(inst, cb) ==
  LET up == [inst EXCEPT !.status = "UP"]
  IN [instance |-> up, request |-> Request("register", cb, up.status)]

\* start(callback): stage 1 and, when it is skipped, the call of stage 2.
Start ==
  /\ Calls("start") < MaxStarts
  /\ CanIssue
  /\ IF config.fetchMetadata
     THEN /\ inflight' = Add(inflight, Request("metadata", "start", "-"))
          /\ UNCHANGED <<instance, resolving>>
     ELSE LET reg == register(instance, "start")
          IN /\ instance' = reg.instance
             /\ buildEurekaUrl(inflight, reg.request)
  /\ history' = Append(history, "start")
  /\ last' = NoResponse
  /\ lookup' = NoLookup
  /\ UNCHANGED <<config, cache, heartbeat, registryFetch, hbTimers, rfTimers,
                 payload>>

\* addInstanceMetadata's callback, then stage 2 of start().
MetadataResponse ==
  \E r \in InFlight("metadata") :
    LET enriched == [instance EXCEPT !.hostName = "public-hostname"]
        reg == register(enriched, "start")
    IN /\ instance' = reg.instance
       /\ buildEurekaUrl(Remove(inflight, r), reg.request)
       /\ last' = Response(r, [error |-> FALSE, statusCode |-> 0], NoBody,
                           "null", "none", FALSE)
       /\ lookup' = NoLookup
       /\ UNCHANGED <<config, cache, heartbeat, registryFetch, hbTimers, rfTimers,
                      history, payload>>

\* setInterval(...) for the heartbeat: the new handle and the live intervals.
startHeartbeats(handle, timers) ==
  [handle |-> handle + 1, timers |-> timers \cup {handle + 1}]

\* A plausible slip: the interval is never set.
startRegistryFetchesUnset(handle, timers) ==
  [handle |-> handle, timers |-> timers]

\* setInterval(...) for the registry fetch.
startRegistryFetches(handle, timers) ==
  [handle |-> handle + 1, timers |-> timers \cup {handle + 1}]

\* clearInterval(handle): an undefined or already cleared handle is ignored.
clearInterval(timers, handle) == timers \ {handle}

\* A plausible slip: any 2xx status counts as registered.
registerCallbackAny2xx(o) ==
  IF ~o.error /\ o.statusCode \in {200, 204} THEN "null" ELSE "error"

\* What register()'s callback is invoked with for outcome o.
registerCallback(o) ==
  IF ~o.error /\ o.statusCode = 204 THEN "null" ELSE "error"

\* A plausible slip: the next stage runs whatever the stage before it
\* handed to done.
seriesContinuesAlways(result) == TRUE

\* async.series: the next task runs only when done was called without error.
seriesContinues(result) == result = "null"

\* The callback of register()'s request.  With start()'s done as callback,
\* success runs stage 3 of start() and failure ends start() with the error.
\* (The 10 s connection timer only logs and is cleared here; it is left out.)
RegisterResponse ==
  \E r \in InFlight("register"), o \in Outcomes :
    LET result == registerCallback(o)
        ok == seriesContinues(result)
        hb == startHeartbeats(heartbeat, hbTimers)
        rf == startRegistryFetches(registryFetch, rfTimers)
    IN /\ IF r.cb = "start" /\ ok
          THEN /\ heartbeat' = hb.handle
               /\ hbTimers' = hb.timers
               /\ IF config.fetchRegistry
                  THEN /\ registryFetch' = rf.handle
                       /\ rfTimers' = rf.timers
                       /\ buildEurekaUrl(Remove(inflight, r),
                                         Request("fetchRegistry", "start", "-"))
                       /\ history' = history
                       /\ last' = Response(r, o, NoBody, result, "none", FALSE)
                  ELSE /\ inflight' = Remove(inflight, r)
                       /\ history' = Append(history, "started")
                       /\ last' = Response(r, o, NoBody, result, "null", FALSE)
                       /\ UNCHANGED <<registryFetch, rfTimers, resolving>>
          ELSE /\ inflight' = Remove(inflight, r)
               /\ history' = IF r.cb = "start" THEN Append(history, "started")
                             ELSE history
               /\ last' = Response(r, o, NoBody, result,
                                   IF r.cb = "start" THEN result ELSE "none", FALSE)
               /\ UNCHANGED <<heartbeat, hbTimers, registryFetch, rfTimers, resolving>>
       /\ lookup' = NoLookup
       /\ UNCHANGED <<config, instance, cache, payload>>

\* A plausible slip: only the heartbeat interval is cleared.
StopHeartbeatOnly ==
  /\ Calls("stop") < MaxStops
  /\ CanIssue
  /\ buildEurekaUrl(inflight, Request("deregister", "stop", "-"))
  /\ hbTimers' = clearInterval(hbTimers, heartbeat)
  /\ history' = Append(history, "stop")
  /\ last' = NoResponse
  /\ lookup' = NoLookup
  /\ UNCHANGED <<config, instance, cache, heartbeat, registryFetch, rfTimers,
                 payload>>

\* stop(callback): deregister(callback), then both clearInterval calls.
Stop ==
  /\ Calls("stop") < MaxStops
  /\ CanIssue
  /\ buildEurekaUrl(inflight, Request("deregister", "stop", "-"))
  /\ hbTimers' = clearInterval(hbTimers, heartbeat)
  /\ rfTimers' = clearInterval(rfTimers, registryFetch)
  /\ history' = Append(history, "stop")
  /\ last' = NoResponse
  /\ lookup' = NoLookup
  /\ UNCHANGED <<config, instance, cache, heartbeat, registryFetch, payload>>

\* A plausible slip: any 2xx status counts as removed.
deregisterCallbackAny2xx(o) ==
  IF ~o.error /\ o.statusCode \in {200, 204} THEN "null" ELSE "error"

\* What deregister()'s callback is invoked with for outcome o.
deregisterCallback(o) ==
  IF ~o.error /\ o.statusCode = 200 THEN "null" ELSE "error"

\* The callback of deregister()'s request.
DeregisterResponse ==
  \E r \in InFlight("deregister"), o \in Outcomes :
    LET result == deregisterCallback(o)
    IN /\ inflight' = Remove(inflight, r)
       /\ last' = Response(r, o, NoBody, result, "none", FALSE)
       /\ lookup' = NoLookup
       /\ UNCHANGED <<config, instance, cache, heartbeat, registryFetch, hbTimers,
                      rfTimers, history, resolving, payload>>

\* A firing of a heartbeat interval: renew().
HeartbeatTick ==
  \E t \in hbTimers :
    /\ CanIssue
    /\ buildEurekaUrl(inflight, Request("renew", "noop", "-"))
    /\ last' = NoResponse
    /\ lookup' = NoLookup
    /\ UNCHANGED <<config, instance, cache, heartbeat, registryFetch, hbTimers,
                   rfTimers, history, payload>>

\* A plausible slip: a failed heartbeat is only logged, whatever its status.
renewBranchLogOnly(o) ==
  IF ~o.error /\ o.statusCode = 200 THEN "success" ELSE "retry"

\* A plausible slip: every failed heartbeat registers again.
renewBranchAlwaysRegister(o) ==
  IF ~o.error /\ o.statusCode = 200 THEN "success" ELSE "register"

\* The branch renew()'s callback takes for outcome o.
renewBranch(o) ==
  IF ~o.error /\ o.statusCode = 200 THEN "success"
  ELSE IF ~o.error /\ o.statusCode = 404 THEN "register"
  ELSE "retry"

\* The callback of renew()'s request: 404 registers again, anything else
\* is only logged.
RenewResponse ==
  \E r \in InFlight("renew"), o \in Outcomes :
    /\ IF renewBranch(o) = "success"
       THEN /\ inflight' = Remove(inflight, r)
            /\ UNCHANGED <<instance, resolving>>
       ELSE IF renewBranch(o) = "register"
       THEN LET reg == register(instance, "noop")
            IN /\ instance' = reg.instance
               /\ buildEurekaUrl(Remove(inflight, r), reg.request)
       ELSE /\ inflight' = Remove(inflight, r)
            /\ UNCHANGED <<instance, resolving>>
    /\ last' = Response(r, o, NoBody, "none", "none", FALSE)
    /\ lookup' = NoLookup
    /\ UNCHANGED <<config, cache, heartbeat, registryFetch, hbTimers, rfTimers,
                   history, payload>>

\* A firing of a registry-fetch interval: fetchRegistry() with no callback.
RegistryFetchTick ==
  \E t \in rfTimers :
    /\ CanIssue
    /\ buildEurekaUrl(inflight, Request("fetchRegistry", "noop", "-"))
    /\ last' = NoResponse
    /\ lookup' = NoLookup
    /\ UNCHANGED <<config, instance, cache, heartbeat, registryFetch, hbTimers,
                   rfTimers, history, payload>>

\* fetchRegistry(callback) called by the application.
FetchRegistry ==
  /\ CanIssue
  /\ buildEurekaUrl(inflight, Request("fetchRegistry", "user", "-"))
  /\ last' = NoResponse
  /\ lookup' = NoLookup
  /\ UNCHANGED <<config, instance, cache, heartbeat, registryFetch, hbTimers,
                 rfTimers, history, payload>>

\* A plausible slip: the status code is not looked at.
fetchRegistryCallbackAnyStatus(thisCache, o, body) ==
  IF ~o.error
  THEN IF body.kind = "malformed"
       THEN [cache |-> thisCache, result |-> "none", threw |-> TRUE]
       ELSE LET t == transformRegistry(thisCache, body)
            IN IF t.threw
               THEN [cache |-> thisCache, result |-> "none", threw |-> TRUE]
               ELSE [cache |-> t.cache, result |-> "null", threw |-> FALSE]
  ELSE [cache |-> thisCache, result |-> "error", threw |-> FALSE]

\* What the callback of fetchRegistry()'s request does with outcome o and
\* body: the cache afterwards, what the callback is invoked with, and
\* whether an exception left the callback.  Whether an uncaught exception
\* ends the process is the application's choice; here the client goes on,
\* which covers the runs of a process that ends there.
fetchRegistryCallback(thisCache, o, body) ==
  IF ~o.error /\ o.statusCode = 200
  THEN IF body.kind = "malformed"
       THEN [cache |-> thisCache, result |-> "none", threw |-> TRUE]
       ELSE LET t == transformRegistry(thisCache, body)
            IN IF t.threw
               THEN [cache |-> thisCache, result |-> "none", threw |-> TRUE]
               ELSE [cache |-> t.cache, result |-> "null", threw |-> FALSE]
  ELSE [cache |-> thisCache, result |-> "error", threw |-> FALSE]

\* A plausible slip: a fetch that fails stops the fetch loop.
FetchRegistryResponseStopping(served) ==
  \E r \in InFlight("fetchRegistry"), o \in Outcomes, body \in served :
    LET f == fetchRegistryCallback(cache, o, body)
        ends == r.cb = "start" /\ f.result # "none"
    IN /\ (o.error \/ o.statusCode # 200 => body.kind = "null")
       /\ cache' = f.cache
       /\ inflight' = Remove(inflight, r)
       /\ history' = IF ends THEN Append(history, "started") ELSE history
       /\ last' = Response(r, o, body, f.result,
                           IF ends THEN f.result ELSE "none", f.threw)
       /\ lookup' = NoLookup
       /\ rfTimers' = IF f.result = "error" THEN clearInterval(rfTimers, registryFetch)
                      ELSE rfTimers
       /\ UNCHANGED <<config, instance, heartbeat, registryFetch, hbTimers,
                      resolving, payload>>

\* The callback of fetchRegistry()'s request, for the bodies the registry
\* serves.  The body is read only under status 200, so any other response
\* carries one body.  With start()'s done as callback, the result ends
\* start(); an exception leaves start()'s callback uncalled.
FetchRegistryResponse(served) ==
  \E r \in InFlight("fetchRegistry"), o \in Outcomes, body \in served :
    LET f == fetchRegistryCallback(cache, o, body)
        ends == r.cb = "start" /\ f.result # "none"
    IN /\ (o.error \/ o.statusCode # 200 => body.kind = "null")
       /\ cache' = f.cache
       /\ inflight' = Remove(inflight, r)
       /\ history' = IF ends THEN Append(history, "started") ELSE history
       /\ last' = Response(r, o, body, f.result,
                           IF ends THEN f.result ELSE "none", f.threw)
       /\ lookup' = NoLookup
       /\ UNCHANGED <<config, instance, heartbeat, registryFetch, hbTimers, rfTimers,
                      resolving, payload>>

\* What a step that ends a TXT query leaves in last.  The callbacks of
\* dns.resolveTxt throw on an error, and nothing catches it.
Resolved(stage, q, err) ==
  Response([op |-> stage, cb |-> q.request.cb], [error |-> err, statusCode |-> 0],
           NoBody, "none", "none", err)

\* A plausible slip: when the query fails, the configured host is used.
ResolveTxtRegionFallback ==
  \E q \in BagToSet(resolving), err \in BOOLEAN :
    /\ q.query = "region"
    /\ IF err
       THEN /\ resolving' = Remove(resolving, q)
            /\ inflight' = Add(inflight, q.request)
       ELSE /\ resolving' = Add(Remove(resolving, q), Query("host", q.request))
            /\ inflight' = inflight
    /\ last' = Response([op |-> "resolveTxtRegion", cb |-> q.request.cb],
                        [error |-> err, statusCode |-> 0],
                        NoBody, "none", "none", FALSE)
    /\ lookup' = NoLookup
    /\ UNCHANGED <<config, instance, cache, heartbeat, registryFetch, hbTimers,
                   rfTimers, history, payload>>

\* The callback of locateEurekaHostUsingDns's first query, of the record
\* txt.<ec2Region>.<host> (config.eureka.ec2Region is set): an error is
\* thrown, otherwise the second query is made for one of the entries.
ResolveTxtRegion ==
  \E q \in BagToSet(resolving), err \in BOOLEAN :
    /\ q.query = "region"
    /\ resolving' = IF err THEN Remove(resolving, q)
                    ELSE Add(Remove(resolving, q), Query("host", q.request))
    /\ last' = Resolved("resolveTxtRegion", q, err)
    /\ lookup' = NoLookup
    /\ UNCHANGED <<config, instance, cache, heartbeat, registryFetch, hbTimers,
                   rfTimers, inflight, history, payload>>

\* The callback of the second query: an error is thrown, otherwise the
\* host it gave goes through lookupCurrentEurekaHost's and buildEurekaUrl's
\* callbacks to the operation, which sends its request there.
ResolveTxtHost ==
  \E q \in BagToSet(resolving), err \in BOOLEAN :
    /\ q.query = "host"
    /\ resolving' = Remove(resolving, q)
    /\ inflight' = IF err THEN inflight
                   ELSE Add(inflight, [q.request EXCEPT !.host = "resolved"])
    /\ last' = Resolved("resolveTxtHost", q, err)
    /\ lookup' = NoLookup
    /\ UNCHANGED <<config, instance, cache, heartbeat, registryFetch, hbTimers,
                   rfTimers, history, payload>>

\* The identifiers the application looks up: the names and vip addresses
\* of the payloads, a vip address in another case, and the empty identifier.
AppIds == AppNames \cup {<<>>}

VipIds == VipAddresses \cup {"V1", "undefined", ""}

\* getInstancesByAppId(appId) called by the application.
GetInstancesByAppId ==
  \E appId \in AppIds :
    /\ lookup' = [fn |-> "getInstancesByAppId", id |-> appId,
                  result |-> getInstancesByAppId(cache, appId)]
    /\ last' = NoResponse
    /\ UNCHANGED <<config, instance, cache, heartbeat, registryFetch, hbTimers,
                   rfTimers, inflight, history, resolving, payload>>

\* getInstancesByVipAddress(vipAddress) called by the application.
GetInstancesByVipAddress ==
  \E vipAddress \in VipIds :
    /\ lookup' = [fn |-> "getInstancesByVipAddress", id |-> vipAddress,
                  result |-> getInstancesByVipAddress(cache, vipAddress)]
    /\ last' = NoResponse
    /\ UNCHANGED <<config, instance, cache, heartbeat, registryFetch, hbTimers,
                   rfTimers, inflight, history, resolving, payload>>

----------------------------------------------------------------------------

Next ==
  \/ Start
  \/ MetadataResponse
  \/ RegisterResponse
  \/ Stop
  \/ DeregisterResponse
  \/ HeartbeatTick
  \/ RenewResponse
  \/ RegistryFetchTick
  \/ FetchRegistry
  \/ FetchRegistryResponse(ServedBodies)

Spec == Init /\ [][Next]_vars

\* The registry cache alone, under every body of the bounds: the
\* application fetches the registry itself, several fetches at a time.
NextCache ==
  \/ FetchRegistry
  \/ FetchRegistryResponse(Bodies)

\* The flags and the instance record play no part in it: one construction.
InitCache ==
  /\ Init
  /\ ~config.fetchMetadata /\ ~config.fetchRegistry
  /\ instance.status = "UNSET"

SpecCache == InitCache /\ [][NextCache]_vars

\* The lookups of the application, between and during its fetches of the
\* registry.
NextLookup ==
  \/ FetchRegistry
  \/ FetchRegistryResponse(ServedBodies)
  \/ GetInstancesByAppId
  \/ GetInstancesByVipAddress

SpecLookup == InitCache /\ [][NextLookup]_vars

\* The indexing of one payload: the registry holds the same payload for
\* the whole behaviour, and the application fetches it.
InitIndex ==
  /\ Constructor({c \in Configs : ~c.useDns /\ ~c.fetchMetadata /\ ~c.fetchRegistry})
  /\ instance.status = "UNSET"
  /\ payload \in Payloads

NextIndex ==
  \/ FetchRegistry
  \/ FetchRegistryResponse({payload})

SpecIndex == InitIndex /\ [][NextIndex]_vars

\* The client with the registry fetch enabled, on the configured host or on
\* a cloud datacenter with DNS discovery, against a registry of one
\* application; the registry is fetched by start() and by the fetch loop.
DnsBodies ==
  {b \in ServedBodies :
     \/ b.kind = "null"
     \/ b.kind = "object" /\ b.application[1].name = <<"a">>}

InitDns ==
  /\ Constructor({c \in Configs : ~c.fetchMetadata /\ c.fetchRegistry})
  /\ instance.status = "UNSET"
  /\ payload = NoBody

NextDns ==
  \/ Start
  \/ RegisterResponse
  \/ Stop
  \/ DeregisterResponse
  \/ HeartbeatTick
  \/ RenewResponse
  \/ RegistryFetchTick
  \/ FetchRegistryResponse(DnsBodies)
  \/ ResolveTxtRegion
  \/ ResolveTxtHost

SpecDns == InitDns /\ [][NextDns]_vars

----------------------------------------------------------------------------
(* The index a registry body stands for, stated on the body itself: the    *)
(* keys are the upper-cased application names and the first instances' vip *)
(* addresses, and a key shared by several entries holds the last of them.  *)

InstanceSeq(a) ==
  IF a.kind = "array" /\ a.instance # <<>> THEN a.instance
  ELSE IF a.kind = "object" THEN <<a.instance[1]>>
  ELSE <<EmptyArray>>

AppKey(a) == toUpperCase(a.name)

VipKey(a) == InstanceSeq(a)[1].vipAddress

LastAt(apps, Key(_), k) ==
  apps[CHOOSE i \in DOMAIN apps :
         /\ Key(apps[i]) = k
         /\ \A j \in DOMAIN apps : Key(apps[j]) = k => j <= i]

IndexOf(body) ==
  LET apps == body.application
  IN [app |-> [k \in {AppKey(apps[i]) : i \in DOMAIN apps} |->
                 InstanceSeq(LastAt(apps, AppKey, k))],
      vip |-> [k \in {VipKey(apps[i]) : i \in DOMAIN apps} |->
                 InstanceSeq(LastAt(apps, VipKey, k))]]

Indexable(body) ==
  /\ body.kind \in {"object", "array"}
  /\ \A i \in DOMAIN body.application : body.application[i].kind # "missing"

LastIsFetch == last.op = "fetchRegistry"

LastIs200 == ~last.error /\ last.statusCode = 200

VipKeys == VipAddresses \cup {"undefined"}

SameLookups(c, d) ==
  /\ \A appId \in AppNames : getInstancesByAppId(c, appId) = getInstancesByAppId(d, appId)
  /\ \A v \in VipKeys : getInstancesByVipAddress(c, v) = getInstancesByVipAddress(d, v)

----------------------------------------------------------------------------
(* C1.  Whatever the interleaving of lookups, timer-driven fetches, direct *)
(* fetches and the fetch of start(), every step either leaves both         *)
(* mappings of the cache as they were, or is the handling of one 200       *)
(* response and sets both mappings to the index of that one response's     *)
(* body: the mappings a reader sees never come from two different fetches. *)
C1_OneFetch ==
  [][\/ cache' = cache
     \/ /\ last'.op = "fetchRegistry"
        /\ ~last'.error /\ last'.statusCode = 200
        /\ Indexable(last'.body)
        /\ cache'.app = IndexOf(last'.body).app
        /\ cache'.vip = IndexOf(last'.body).vip]_vars

\* A timer-driven fetch has just replaced the index while another fetch
\* is still in flight.
C1_Witness ==
  /\ LastIsFetch /\ LastIs200 /\ last.cb = "noop"
  /\ Indexable(last.body)
  /\ cache = IndexOf(last.body)
  /\ InFlight("fetchRegistry") # {}

(* C2.  A fetchRegistry response that is a transport error or has a status *)
(* other than 200 leaves the cache, and with it every lookup result, as it *)
(* was, and the callback of fetchRegistry is invoked with an error.        *)
C2_FailedFetch ==
  [][(last'.op = "fetchRegistry" /\ (last'.error \/ last'.statusCode # 200))
       => /\ cache' = cache
          /\ SameLookups(cache', cache)
          /\ last'.result = "error"
          /\ ~last'.threw]_vars

\* A fetch has failed with a status other than 200 over a filled cache.
C2_Witness ==
  /\ LastIsFetch /\ ~last.error /\ last.statusCode = 500
  /\ last.result = "error"
  /\ cache # EmptyCache

EmptyPayload(body) == body.kind \in {"null", "noApplication"}

(* C3, as claimed.  A 200 response whose body holds no registry object or  *)
(* no application entry is answered with an error.                         *)
C3_AsClaimed ==
  (LastIsFetch /\ LastIs200 /\ EmptyPayload(last.body)) => last.result = "error"

(* C3, amended.  A 200 response whose body holds no registry object or no  *)
(* application entry leaves the cache as it was, and the callback of       *)
(* fetchRegistry is invoked without error.                                 *)
C3_EmptyPayload ==
  [][(last'.op = "fetchRegistry" /\ ~last'.error /\ last'.statusCode = 200
        /\ EmptyPayload(last'.body))
       => /\ cache' = cache
          /\ SameLookups(cache', cache)
          /\ last'.result = "null"
          /\ ~last'.threw]_vars

\* A 200 response without application entry has been handled over a filled
\* cache.
C3_Witness ==
  /\ LastIsFetch /\ LastIs200 /\ last.body.kind = "noApplication"
  /\ last.result = "null"
  /\ cache # EmptyCache

AppFound(c, appId) == getInstancesByAppId(c, appId).found

VipFound(c, v) == getInstancesByVipAddress(c, v).found

\* The lookups find exactly the applications of body.
FindsExactly(c, body) ==
  LET apps == body.application
  IN /\ \A appId \in AppNames :
          AppFound(c, appId) <=> \E i \in DOMAIN apps : AppKey(apps[i]) = toUpperCase(appId)
     /\ \A v \in VipKeys :
          VipFound(c, v) <=> \E i \in DOMAIN apps : VipKey(apps[i]) = v

Constructed == inflight = EmptyBag /\ last = NoResponse

(* C4, as claimed.  After every fetchRegistry that calls back without      *)
(* error the lookups find exactly the applications of its body.            *)
C4_AsClaimed ==
  (LastIsFetch /\ last.result = "null") => FindsExactly(cache, last.body)

(* C4, amended.  The index is empty at construction, and after every       *)
(* fetchRegistry that calls back without error on a body that holds an     *)
(* application entry (one application or a list, the empty list included)  *)
(* the index is exactly the index of that body: what an earlier fetch had  *)
(* put there and the body does not hold is not found any more.             *)
C4_Replaced ==
  /\ Constructed => cache = EmptyCache
  /\ (LastIsFetch /\ last.result = "null" /\ ~EmptyPayload(last.body))
       => /\ Indexable(last.body)
          /\ cache = IndexOf(last.body)
          /\ FindsExactly(cache, last.body)

\* A fetch has called back without error on the empty list of applications
\* while another fetch is in flight: nothing is found any more.
C4_Witness ==
  /\ LastIsFetch /\ last.result = "null"
  /\ last.body.kind = "array" /\ last.body.application = <<>>
  /\ cache = EmptyCache
  /\ InFlight("fetchRegistry") # {}

----------------------------------------------------------------------------
(* start() and stop(). *)

Registers(bag) == Count(bag, "register", "start") + Count(bag, "register", "noop")

Fetches(bag) ==
  Count(bag, "fetchRegistry", "start") + Count(bag, "fetchRegistry", "noop")
    + Count(bag, "fetchRegistry", "user")

StartCalled == history' = Append(history, "start")

StartEnded == history' = Append(history, "started")

\* The step is the callback of the registration start() made, and it
\* reports success.
RegisteredForStart ==
  /\ last'.op = "register" /\ last'.cb = "start"
  /\ ~last'.error /\ last'.statusCode = 204

\* The step is the callback of the registration start() made, and it
\* reports a failure.
RegisterFailedForStart ==
  /\ last'.op = "register" /\ last'.cb = "start"
  /\ (last'.error \/ last'.statusCode # 204)

LoopStarted ==
  \/ ~(hbTimers' \subseteq hbTimers)
  \/ ~(rfTimers' \subseteq rfTimers)
  \/ heartbeat' # heartbeat
  \/ registryFetch' # registryFetch

(* C5.  start() is an ordered, short-circuiting pipeline.  The             *)
(* registration of start() is issued only by the call of start() when      *)
(* metadata enrichment is skipped, or by the completion of the enrichment. *)
(* A loop is started, or the fetch of start() issued, only by the callback *)
(* of that registration reporting success.  When that callback reports a   *)
(* failure, no loop is started, no fetch is issued, and the callback of    *)
(* start() receives the error.                                             *)
C5_Pipeline ==
  [][/\ Count(inflight', "register", "start") > Count(inflight, "register", "start")
          => \/ StartCalled /\ ~config.fetchMetadata
             \/ last'.op = "metadata"
     /\ (StartCalled /\ config.fetchMetadata) => Registers(inflight') = Registers(inflight)
     /\ (LoopStarted \/ Count(inflight', "fetchRegistry", "start")
                          > Count(inflight, "fetchRegistry", "start"))
          => RegisteredForStart
     /\ RegisterFailedForStart
          => /\ ~LoopStarted
             /\ hbTimers' = hbTimers /\ rfTimers' = rfTimers
             /\ Fetches(inflight') = Fetches(inflight)
             /\ last'.startResult = "error"
             /\ StartEnded]_vars

\* The registration of a start() with metadata enrichment has failed with
\* a status that is not 204.
C5_Witness ==
  /\ config.fetchMetadata /\ instance.hostName = "public-hostname"
  /\ last.op = "register" /\ last.cb = "start"
  /\ ~last.error /\ last.statusCode = 200
  /\ last.startResult = "error"
  /\ hbTimers = {} /\ rfTimers = {}

(* C6.  Stage 3 of start() starts the heartbeat loop.  With registry fetch *)
(* enabled it starts the fetch loop and issues exactly one fetch, does not *)
(* call back yet, and the callback of start() is invoked by that fetch's   *)
(* callback with that fetch's result, an error included.  With registry    *)
(* fetch disabled it starts no fetch loop and issues no fetch, calls back  *)
(* without error, and the cache changes only by fetches the application    *)
(* makes itself.                                                           *)
C6_Stage3 ==
  /\ [](~config.fetchRegistry
          => /\ rfTimers = {} /\ registryFetch = 0
             /\ Count(inflight, "fetchRegistry", "start") = 0
             /\ Count(inflight, "fetchRegistry", "noop") = 0)
  /\ [][/\ RegisteredForStart
             => /\ heartbeat' \in hbTimers' \ hbTimers
                /\ hbTimers \subseteq hbTimers'
                /\ IF config.fetchRegistry
                   THEN /\ registryFetch' \in rfTimers' \ rfTimers
                        /\ rfTimers \subseteq rfTimers'
                        /\ Count(inflight', "fetchRegistry", "start")
                             = Count(inflight, "fetchRegistry", "start") + 1
                        /\ Fetches(inflight') = Fetches(inflight) + 1
                        /\ last'.startResult = "none"
                        /\ history' = history
                   ELSE /\ Fetches(inflight') = Fetches(inflight)
                        /\ last'.startResult = "null"
                        /\ StartEnded
                        /\ cache' = cache
        /\ (config.fetchRegistry /\ StartEnded)
             => \/ RegisterFailedForStart
                \/ /\ last'.op = "fetchRegistry" /\ last'.cb = "start"
                   /\ last'.startResult = last'.result
        /\ (last'.op = "fetchRegistry" /\ last'.cb = "start" /\ last'.result = "error")
             => last'.startResult = "error" /\ StartEnded
        /\ (~config.fetchRegistry /\ cache' # cache) => last'.cb = "user"]_vars

\* The fetch of start() has failed and start() has ended with its error,
\* both loops running.
C6_Witness ==
  /\ config.fetchRegistry
  /\ history = <<"start", "started">>
  /\ last.op = "fetchRegistry" /\ last.cb = "start" /\ last.startResult = "error"
  /\ hbTimers = {1} /\ rfTimers = {1}

\* start() was called once and had ended when stop() was called.
StoppedAfterStart ==
  /\ Len(history) >= 3
  /\ SubSeq(history, 1, 3) = <<"start", "started", "stop">>
  /\ Calls("start") = 1

(* C7.  For a client whose one start() has ended, stop() issues a          *)
(* deregister call and cancels both loops: from the call of stop() on no   *)
(* heartbeat interval and no registry-fetch interval is live, whatever the *)
(* outcome of the deregister call.                                         *)
C7_Stop ==
  /\ [](StoppedAfterStart => hbTimers = {} /\ rfTimers = {})
  /\ [][history' = Append(history, "stop")
          => Count(inflight', "deregister", "stop")
               = Count(inflight, "deregister", "stop") + 1]_vars

\* Both loops had been started, stop() was called, and the deregister call
\* has ended in a transport error.
C7_Witness ==
  /\ StoppedAfterStart
  /\ heartbeat = 1 /\ registryFetch = 1
  /\ last.op = "deregister" /\ last.error
  /\ hbTimers = {} /\ rfTimers = {}

----------------------------------------------------------------------------
(* Heartbeats and registration. *)

(* C8.  The callback of a renew() whose response is status 404 issues      *)
(* exactly one register call, in the step that handles the response, so    *)
(* before any later heartbeat tick; the callback of a renew() whose        *)
(* response is status 200 issues none.                                     *)
C8_ReRegister ==
  [][last'.op = "renew"
       => /\ (~last'.error /\ last'.statusCode = 404)
               => /\ Registers(inflight') = Registers(inflight) + 1
                  /\ Count(inflight', "register", "noop")
                       = Count(inflight, "register", "noop") + 1
                  /\ Count(inflight', "renew", "noop")
                       = Count(inflight, "renew", "noop") - 1
          /\ (~last'.error /\ last'.statusCode = 200)
               => Registers(inflight') = Registers(inflight)]_vars

\* A heartbeat has been answered 404 and the registration it triggered is
\* in flight.
C8_Witness ==
  /\ last.op = "renew" /\ ~last.error /\ last.statusCode = 404
  /\ Count(inflight, "register", "noop") = 1

\* The step handles a response and issues nothing.
OnlyConsumes ==
  \E r \in BagToSet(inflight) :
    /\ r.op = last'.op /\ r.cb = last'.cb
    /\ inflight' = Remove(inflight, r)

(* C9.  The callback of a renew() that ended in a transport error or in a  *)
(* status other than 200 and 404 issues no register call and no renew,     *)
(* raises nothing, calls no caller back, and leaves the heartbeat          *)
(* intervals as they are; so does the callback of a registration that a    *)
(* heartbeat triggered, whatever its outcome.                              *)
C9_HeartbeatFailure ==
  [][(\/ last'.op = "renew" /\ (last'.error \/ last'.statusCode \notin {200, 404})
      \/ last'.op = "register" /\ last'.cb = "noop")
       => /\ OnlyConsumes
          /\ hbTimers' = hbTimers /\ heartbeat' = heartbeat
          /\ rfTimers' = rfTimers /\ registryFetch' = registryFetch
          /\ history' = history
          /\ last'.startResult = "none"
          /\ ~last'.threw
          /\ last'.op = "renew" => last'.result = "none"]_vars

\* A heartbeat has ended in a transport error and the heartbeat interval
\* is still live.
C9_Witness ==
  /\ last.op = "renew" /\ last.error
  /\ hbTimers # {}
  /\ Registers(inflight) = 0

(* C10.  Every registration in flight carries the status UP, which the     *)
(* instance record holds from then on, and the callback of register() is   *)
(* invoked once per response: without error exactly when the response is   *)
(* no transport error and has status 204.                                  *)
C10_Register ==
  /\ \A r \in InFlight("register") : r.status = "UP" /\ instance.status = "UP"
  /\ last.op = "register"
       => /\ last.result \in {"null", "error"}
          /\ last.result = "null" <=> (~last.error /\ last.statusCode = 204)
          /\ instance.status = "UP"

\* A registration has been answered 200 and its callback has received an
\* error.
C10_Witness ==
  /\ last.op = "register" /\ ~last.error /\ last.statusCode = 200
  /\ last.result = "error"

----------------------------------------------------------------------------
(* Deregistration. *)

StopCalled == history' = Append(history, "stop")

(* C11.  The callback of deregister() is invoked once per response,        *)
(* without error exactly when the response is no transport error and has   *)
(* status 200, and with an error otherwise.  The step that handles the     *)
(* response issues no call (no retry) and leaves the intervals and their   *)
(* handles as stop() left them: stop() has cleared the intervals of both   *)
(* handles in the turn that issued the call, so for a client whose one     *)
(* start() had ended no interval is live after a failed deregistration.    *)
C11_Deregister ==
  /\ []((StoppedAfterStart /\ last.op = "deregister" /\ last.result = "error")
          => hbTimers = {} /\ rfTimers = {})
  /\ [][/\ last'.op = "deregister"
             => /\ last'.result \in {"null", "error"}
                /\ last'.result = "null" <=> (~last'.error /\ last'.statusCode = 200)
                /\ ~last'.threw
                /\ OnlyConsumes
                /\ resolving' = resolving
                /\ hbTimers' = hbTimers /\ heartbeat' = heartbeat
                /\ rfTimers' = rfTimers /\ registryFetch' = registryFetch
        /\ StopCalled
             => /\ heartbeat \notin hbTimers' /\ registryFetch \notin rfTimers'
                /\ heartbeat' = heartbeat /\ registryFetch' = registryFetch]_vars

\* Both loops had been started, stop() was called, and the deregister call
\* has been answered with a status that is neither 200 nor a transport
\* error: the caller got an error, no call is in flight, no interval live.
C11_Witness ==
  /\ StoppedAfterStart
  /\ heartbeat = 1 /\ registryFetch = 1
  /\ last.op = "deregister" /\ ~last.error /\ last.statusCode = 404
  /\ last.result = "error"
  /\ inflight = EmptyBag
  /\ hbTimers = {} /\ rfTimers = {}

----------------------------------------------------------------------------
(* Lookups. *)

SameUpperCase(a, b) == toUpperCase(a) = toUpperCase(b)

LookedUpApp == lookup.fn = "getInstancesByAppId"

LookedUpVip == lookup.fn = "getInstancesByVipAddress"

(* C12.  getInstancesByAppId is case-insensitive: in every state, two      *)
(* non-empty identifiers that are equal after upper-casing get the same    *)
(* result, a lookup the application made included; after a fetch has       *)
(* indexed an application, every identifier equal to its name after        *)
(* upper-casing finds it.  getInstancesByVipAddress matches exactly: an    *)
(* identifier is found exactly when it is a key of the vip mapping as it   *)
(* is written, so "V1" is not found where "v1" is.                         *)
C12_CaseInsensitive ==
  /\ \A a, b \in AppNames :
       SameUpperCase(a, b) => getInstancesByAppId(cache, a) = getInstancesByAppId(cache, b)
  /\ LookedUpApp /\ lookup.id # <<>>
       => \A b \in AppNames :
            SameUpperCase(lookup.id, b) => lookup.result = getInstancesByAppId(cache, b)
  /\ (LastIsFetch /\ last.result = "null" /\ Indexable(last.body))
       => \A i \in DOMAIN last.body.application, b \in AppNames :
            SameUpperCase(last.body.application[i].name, b)
              => /\ getInstancesByAppId(cache, b).found
                 /\ getInstancesByAppId(cache, b).instances
                      = IndexOf(last.body).app[AppKey(last.body.application[i])]
  /\ \A v \in VipIds \ {""} :
       /\ ~getInstancesByVipAddress(cache, v).threw
       /\ getInstancesByVipAddress(cache, v).found <=> v \in DOMAIN cache.vip
  /\ "v1" \in DOMAIN cache.vip
       => /\ getInstancesByVipAddress(cache, "v1").instances = cache.vip["v1"]
          /\ ~getInstancesByVipAddress(cache, "V1").found

\* The application has looked up "a" and found what the fetch of the
\* application named "a" had indexed under "A"; "V1" is not found.
C12_Witness ==
  /\ LookedUpApp /\ lookup.id = <<"a">>
  /\ lookup.result.found
  /\ DOMAIN cache.app = {<<"A">>}
  /\ lookup.result = getInstancesByAppId(cache, <<"A">>)
  /\ "v1" \in DOMAIN cache.vip
  /\ ~getInstancesByVipAddress(cache, "V1").found

(* C14.  A lookup with the empty identifier raises the RangeError and      *)
(* returns nothing; a lookup with a non-empty identifier raises nothing,   *)
(* and returns the absent result exactly when the mapping has no entry for *)
(* it (for getInstancesByAppId: for its upper-cased form).  No lookup      *)
(* changes the cache or any other state of the client.                     *)
C14_Lookup ==
  [][lookup'.fn # "none"
       => /\ UNCHANGED <<config, instance, cache, heartbeat, registryFetch,
                         hbTimers, rfTimers, inflight, history, resolving, payload>>
          /\ lookup'.fn = "getInstancesByAppId"
               => IF lookup'.id = <<>>
                  THEN lookup'.result.threw /\ ~lookup'.result.found
                  ELSE /\ ~lookup'.result.threw
                       /\ lookup'.result.found
                            <=> toUpperCase(lookup'.id) \in DOMAIN cache.app
                       /\ lookup'.result.found
                            => lookup'.result.instances = cache.app[toUpperCase(lookup'.id)]
          /\ lookup'.fn = "getInstancesByVipAddress"
               => IF lookup'.id = ""
                  THEN lookup'.result.threw /\ ~lookup'.result.found
                  ELSE /\ ~lookup'.result.threw
                       /\ lookup'.result.found <=> lookup'.id \in DOMAIN cache.vip
                       /\ lookup'.result.found
                            => lookup'.result.instances = cache.vip[lookup'.id]]_vars

\* Over a filled cache, with a fetch in flight, the application has looked
\* up a vip address the cache has no entry for: absent, and no error.
C14_Witness ==
  /\ LookedUpVip /\ lookup.id = "v2"
  /\ ~lookup.result.threw /\ ~lookup.result.found
  /\ "v1" \in DOMAIN cache.vip
  /\ InFlight("fetchRegistry") # {}

----------------------------------------------------------------------------
(* Normalisation of a payload. *)

\* The step before handled a 200 response and indexed its body.
Indexed == LastIsFetch /\ last.result = "null" /\ Indexable(last.body)

\* body with every single instance record written as a list of one.
AsLists(body) ==
  [body EXCEPT !.application =
     [i \in DOMAIN body.application |->
        IF body.application[i].kind = "object"
        THEN [body.application[i] EXCEPT !.kind = "array"]
        ELSE body.application[i]]]

SequencesOfRecords(map) ==
  \A k \in DOMAIN map :
    /\ map[k] # <<>>
    /\ \A j \in DOMAIN map[k] : map[k][j] \in Records

(* C13, as claimed.  After a payload is indexed, the cache is the one the  *)
(* same payload gives with every single instance record written as a list  *)
(* of one, and every value of either mapping is a sequence of instance     *)
(* records, whatever the lengths of the payload's lists.                   *)
C13_AsClaimed ==
  Indexed
    => /\ cache = transformRegistry(EmptyCache, AsLists(last.body)).cache
       /\ SequencesOfRecords(cache.app)
       /\ SequencesOfRecords(cache.vip)

\* The instance records found through some key of map.
Members(map) == UNION {{map[k][j] : j \in DOMAIN map[k]} : k \in DOMAIN map}

\* No application of body has an empty list of instances.
NonEmptyLists(body) ==
  \A i \in DOMAIN body.application :
    body.application[i].kind = "array" => body.application[i].instance # <<>>

(* C15, as claimed, for the payloads that hold no empty list of instances: *)
(* in every state the instance records found through the app mapping are   *)
(* the instance records found through the vip mapping, also when two       *)
(* applications of the payload have the same first vip address or names    *)
(* that are equal after upper-casing.                                      *)
C15_AsClaimed ==
  NonEmptyLists(payload) => Members(cache.app) = Members(cache.vip)

\* The vip addresses of the instances of a after the first.
LaterVips(a) == {a.instance[j].vipAddress : j \in 2..Len(a.instance)}

(* C16.  After a payload is indexed, the keys of the vip mapping are the   *)
(* vip addresses of the first instances of its applications, one key for   *)
(* each application; the key of an application holds its full instance     *)
(* sequence unless a later application of the payload has the same key;    *)
(* and the vip address of a later instance is not found unless it is the   *)
(* first vip address of some application.                                  *)
C16_FirstVip ==
  Indexed
    => LET apps == last.body.application
           firsts == {VipKey(apps[i]) : i \in DOMAIN apps}
       IN /\ DOMAIN cache.vip = firsts
          /\ Len(apps) = 1 => Cardinality(DOMAIN cache.vip) = 1
          /\ \A i \in DOMAIN apps :
               (\A j \in DOMAIN apps : j > i => VipKey(apps[j]) # VipKey(apps[i]))
                 => /\ cache.vip[VipKey(apps[i])] = InstanceSeq(apps[i])
                    /\ getInstancesByVipAddress(cache, VipKey(apps[i])).instances
                         = InstanceSeq(apps[i])
          /\ \A i \in DOMAIN apps :
               \A v \in LaterVips(apps[i]) \ firsts :
                 ~getInstancesByVipAddress(cache, v).found

\* One application with two instances of different vip addresses has been
\* indexed: the first vip address finds both, the second finds nothing.
C16_Witness ==
  /\ Indexed
  /\ Len(last.body.application) = 1
  /\ last.body.application[1].instance
       = <<[vipAddress |-> "v1", instanceId |-> "i1"],
           [vipAddress |-> "v2", instanceId |-> "i1"]>>
  /\ DOMAIN cache.vip = {"v1"}
  /\ Len(getInstancesByVipAddress(cache, "v1").instances) = 2
  /\ ~getInstancesByVipAddress(cache, "v2").found

----------------------------------------------------------------------------
(* The two sides of the client. *)

\* The step issues a call of op with callback cb.
Issues(op, cb) ==
  \E r \in BagToSet(inflight') :
    /\ r.op = op /\ r.cb = cb
    /\ CopiesIn(r, inflight') > CopiesIn(r, inflight)

\* The step puts r in flight.
Issued(r) == CopiesIn(r, inflight') > CopiesIn(r, inflight)

RegistrationFrame ==
  /\ instance' = instance
  /\ heartbeat' = heartbeat /\ registryFetch' = registryFetch
  /\ hbTimers' = hbTimers /\ rfTimers' = rfTimers

(* C17.  The steps of register(), renew() and deregister(), the one that   *)
(* issues the call and the one that handles its response, leave the cache  *)
(* unchanged; the steps of fetchRegistry() leave the instance record, both *)
(* handles and the live intervals unchanged (the fetch of start() is       *)
(* issued by the turn that has just set both intervals, and leaves the     *)
(* instance record unchanged).  So the cache changes only in the callback  *)
(* of a fetch, and the instance record never there.                        *)
C17_Frame ==
  [][/\ last'.op \in {"register", "renew", "deregister"} => cache' = cache
     /\ last'.op = "fetchRegistry" => RegistrationFrame
     /\ \A r \in BagToSet(inflight') :
          Issued(r)
            => /\ cache' = cache
               /\ r.op = "fetchRegistry" => instance' = instance
               /\ (r.op = "fetchRegistry" /\ r.cb # "start") => RegistrationFrame
     /\ cache' # cache => last'.op = "fetchRegistry"
     /\ instance' # instance => last'.op # "fetchRegistry" /\ cache' = cache]_vars

\* With both loops running and a heartbeat in flight, a fetch of the loop
\* has failed over a filled cache: the intervals and the instance record
\* are as they were.
C17_Witness ==
  /\ last.op = "fetchRegistry" /\ last.cb = "noop" /\ last.result = "error"
  /\ cache # EmptyCache
  /\ instance.status = "UP"
  /\ hbTimers = {1} /\ rfTimers = {1}
  /\ InFlight("renew") # {}

----------------------------------------------------------------------------
(* Resolution of the registry host. *)

RegistryOps == {"register", "renew", "deregister", "fetchRegistry"}

\* The step puts a request in flight.
Sends == \E r \in BagToSet(inflight') : CopiesIn(r, inflight') > CopiesIn(r, inflight)

\* The step starts an operation that asks for the base URL.
Asks ==
  \/ StartCalled \/ StopCalled
  \/ last'.op = "register" /\ last'.cb = "start" /\ last'.result = "null"
  \/ last'.op = "renew" /\ ~last'.error /\ last'.statusCode = 404

QueryFailed == last'.op \in {"resolveTxtRegion", "resolveTxtHost"} /\ last'.error

----------------------------------------------------------------------------
(* After stop(). *)

(* C19, as claimed.  Once stop() has been called, no step issues a         *)
(* register call: not the callback of a renew that was in flight, and not  *)
(* a start() that was still in progress.                                   *)
C19_AsClaimed ==
  [][Calls("stop") > 0
       => ~Issues("register", "start") /\ ~Issues("register", "noop")]_vars

\* The calls of start() and stop(), in order.
PublicCalls == SelectSeq(history, LAMBDA e : e \in {"start", "stop"})

LastCallIsStop ==
  PublicCalls # <<>> /\ PublicCalls[Len(PublicCalls)] = "stop"

(* C20, as claimed.  At most one heartbeat interval and at most one        *)
(* registry-fetch interval is live at any time, and once the last call     *)
(* made is stop() and no network call is in flight, none is live.          *)
C20_AsClaimed ==
  /\ Cardinality(hbTimers) <= 1
  /\ Cardinality(rfTimers) <= 1
  /\ (LastCallIsStop /\ inflight = EmptyBag) => hbTimers = {} /\ rfTimers = {}

====
